---- MODULE Spec2Model ----
(***************************************************************************)
(* Model of the winch x64 assembler (winch/codegen/src/isa/x64/asm.rs).    *)
(*                                                                         *)
(* The Assembler owns a MachBuffer (the emitted instructions and the       *)
(* constants registered with it), a ConstantPool, the VCodeConstants and   *)
(* the ISA flags.  Every public method is one action.  A method body is a  *)
(* straight-line program: it evaluates conversions (which may panic),      *)
(* resolves addresses (which may register a constant) and emits            *)
(* instructions, in source order; a panic stops it where it is and leaves  *)
(* what was done before it in place.                                       *)
(***************************************************************************)
EXTENDS Integers, Sequences, FiniteSets, TLC

VARIABLES
  buffer,            \* MachBuffer<Inst>: the instructions emitted so far
  buffer_constants,  \* MachBuffer: the constants registered with register_constant
  pool,              \* ConstantPool: handle i holds pool[i]
  constants,         \* VCodeConstants: entry i is VCodeConstantData::Pool(handle, data)
  isa_flags,         \* x64_settings::Flags, fixed at construction
  status,            \* "live", "panicked" (a fail-fast assertion fired) or "finalized"
  output,            \* MachBufferFinalized, once finalize has consumed the assembler
  call,              \* the most recent method call and its arguments
  returned,          \* history: the (content, address) pairs add_constant has returned
  resolved,          \* history: the (handle, operand) pairs address resolution has produced
  calls,             \* history: the emission calls made so far, in call order
  fuel               \* emission calls the driver may still make

vars == <<buffer, buffer_constants, pool, constants, isa_flags, status, output,
          call, returned, resolved, calls, fuel>>

(***************************************************************************)
(* Bounds and input sets.                                                  *)
(***************************************************************************)
\* Emission calls per behaviour in the per-family specifications.
MaxEmits == 2
\* Emission calls per behaviour in the specification that offers every method.
MaxEmitsAll == 1

RAX == [name |-> "rax", class |-> "Int"]
RDX == [name |-> "rdx", class |-> "Int"]
XMM0 == [name |-> "xmm0", class |-> "Float"]

\* Registers offered as divisor and as ALU source (two distinct GPRs and a float).
Regs == {RAX, RDX, XMM0}
\* Dividend pairs (dst.0, dst.1): the (rax, rdx) pair the caller is to allocate, and
\* pairs with a float register in either place.
DstPairs == {<<RAX, RDX>>, <<RAX, XMM0>>, <<XMM0, RDX>>}
\* Registers offered to every other method: one of each class.
Regs2 == {RAX, XMM0}

\* masm::OperandSize
Sizes == {"S32", "S64", "S128"}
\* masm::IntCmpKind
IntCmpKinds == {"Eq", "Ne", "LtS", "LtU", "GtS", "GtU", "LeS", "LeU", "GeS", "GeU"}
\* IntCmpKind inputs of the methods other than setcc
SomeCmpKinds == {"Eq", "LtS"}
\* masm::DivKind and masm::RemKind
DivKinds == {"Signed", "Unsigned"}
\* masm::ShiftKind
ShiftKinds == {"Shl", "ShrS", "ShrU", "Rotl", "Rotr"}
\* masm::RoundingMode
RoundingModes == {"Nearest", "Down", "Up", "Zero"}
\* ir::TrapCode inputs
TrapCodes == {"IntegerDivisionByZero", "IntegerOverflow", "UnreachableCodeReached"}
\* Immediates, shift counts, labels, function indices and libcalls offered
Imms == {7}
Labels == {[kind |-> "MachLabel", n |-> 0], [kind |-> "MachLabel", n |-> 1]}
LibCalls == {"CeilF32"}
\* Constant contents (byte strings) offered to add_constant
Blobs == {<<1>>, <<1, 2>>}
\* Every combination of the four capability flags the assembler reads
AllFlags == [has_popcnt : BOOLEAN, has_sse42 : BOOLEAN, has_lzcnt : BOOLEAN, has_bmi1 : BOOLEAN]
FlagsOn == [has_popcnt |-> TRUE, has_sse42 |-> TRUE, has_lzcnt |-> TRUE, has_bmi1 |-> TRUE]
FlagsOff == [has_popcnt |-> FALSE, has_sse42 |-> FALSE, has_lzcnt |-> FALSE, has_bmi1 |-> FALSE]

(***************************************************************************)
(* Addresses (super::address::Address).                                    *)
(***************************************************************************)
AddrOffset(base, offset) == [kind |-> "Offset", base |-> base, offset |-> offset]
AddrConst(handle) == [kind |-> "Const", handle |-> handle]
is_offset(addr) == addr.kind = "Offset"

\* The addresses a caller can hold: a base+offset one, or a handle add_constant returned.
Addresses == {AddrOffset(RAX, 8)} \cup {p.addr : p \in returned}

(***************************************************************************)
(* Conversions between winch and cranelift operand types.  A failed        *)
(* expect()/unwrap()/panic!() yields Panic.                                *)
(***************************************************************************)
Panic == [kind |-> "panic"]
Unreachable == "unreachable!()"

\* Gpr::new and its siblings accept a register of class Int only.
IsGprClass(reg) == reg.class = "Int"
\* Xmm::new and its siblings accept a register of class Float only.
IsXmmClass(reg) == reg.class = "Float"

RegMemImmFromReg(reg) == [kind |-> "RegMemImm", reg |-> reg]
RegMemFromReg(reg) == [kind |-> "RegMem", reg |-> reg]
WritableGprFromReg(reg) == IF IsGprClass(reg) THEN [kind |-> "WritableGpr", reg |-> reg] ELSE Panic
WritableXmmFromReg(reg) == IF IsXmmClass(reg) THEN [kind |-> "WritableXmm", reg |-> reg] ELSE Panic
GprFromReg(reg) == IF IsGprClass(reg) THEN [kind |-> "Gpr", reg |-> reg] ELSE Panic
GprMemFromReg(reg) == IF IsGprClass(reg) THEN [kind |-> "GprMem", reg |-> reg] ELSE Panic
GprMemImmFromReg(reg) == IF IsGprClass(reg) THEN [kind |-> "GprMemImm", reg |-> reg] ELSE Panic
Imm8GprFromReg(reg) == IF IsGprClass(reg) THEN [kind |-> "Imm8Gpr", reg |-> reg] ELSE Panic
XmmFromReg(reg) == IF IsXmmClass(reg) THEN [kind |-> "Xmm", reg |-> reg] ELSE Panic

\* XmmMem::new / XmmMemAligned::new of a register operand
XmmMemFromReg(reg) == IF IsXmmClass(reg) THEN [kind |-> "XmmMem", reg |-> reg] ELSE Panic
XmmMemAlignedFromReg(reg) == IF IsXmmClass(reg) THEN [kind |-> "XmmMemAligned", reg |-> reg] ELSE Panic
\* The immediate and memory forms of the union operands need no register class.
GprMemImmFromImm(imm) == [kind |-> "GprMemImm", imm |-> imm]
Imm8GprFromImm(imm) == [kind |-> "Imm8Gpr", imm |-> imm]
GprMemFromMem(amode) == [kind |-> "GprMem", mem |-> amode]
XmmMemFromMem(amode) == [kind |-> "XmmMem", mem |-> amode]
\* Writable::from_reg(reg.into()): a plain writable register, of any class
WritableFromReg(reg) == [kind |-> "WritableReg", reg |-> reg]
\* reg.into() where the instruction takes a plain Reg
PlainReg(reg) == [kind |-> "Reg", reg |-> reg]

ArgsOperandSize(size) ==
  CASE size = "S32" -> [kind |-> "OperandSize", v |-> "Size32"]
    [] size = "S64" -> [kind |-> "OperandSize", v |-> "Size64"]
    [] OTHER -> Panic

DivSignednessFrom(kind) ==
  CASE kind = "Signed" -> "Signed"
    [] kind = "Unsigned" -> "Unsigned"

\* A conversion that answers the unsigned condition for the signed less-than.
CCFrom_SignedAsUnsigned(value) ==
  CASE value = "Eq" -> "Z"
    [] value = "Ne" -> "NZ"
    [] value = "LtS" -> "B"
    [] value = "LtU" -> "B"
    [] value = "GtS" -> "NLE"
    [] value = "GtU" -> "NBE"
    [] value = "LeS" -> "LE"
    [] value = "LeU" -> "BE"
    [] value = "GeS" -> "NL"
    [] value = "GeU" -> "NB"

CCFrom(value) ==
  CASE value = "Eq" -> "Z"
    [] value = "Ne" -> "NZ"
    [] value = "LtS" -> "L"
    [] value = "LtU" -> "B"
    [] value = "GtS" -> "NLE"
    [] value = "GtU" -> "NBE"
    [] value = "LeS" -> "LE"
    [] value = "LeU" -> "BE"
    [] value = "GeS" -> "NL"
    [] value = "GeU" -> "NB"

CraneliftShiftKindFrom(value) ==
  CASE value = "Shl" -> "ShiftLeft"
    [] value = "ShrS" -> "ShiftRightArithmetic"
    [] value = "ShrU" -> "ShiftRightLogical"
    [] value = "Rotl" -> "RotateLeft"
    [] value = "Rotr" -> "RotateRight"

(***************************************************************************)
(* The machine state a method body works on, and its primitive steps.      *)
(* ok = FALSE once a panic has fired; every later step is then skipped.    *)
(***************************************************************************)
Machine == [buffer |-> buffer, buffer_constants |-> buffer_constants,
            constants |-> constants, resolved |-> resolved, ok |-> TRUE]

\* The fields of an instruction that hold a converted operand.
OperandFields == {"size", "dst_size", "src_size", "src", "dst", "src1", "src2",
                  "consequent", "alternative", "num_bits", "divisor", "dividend_lo",
                  "dividend_hi", "dst_quotient", "dst_remainder", "lhs", "rhs",
                  "idx", "tmp1", "tmp2", "dest"}

\* Building the instruction value panics when one of its field expressions does.
Constructs(inst) ==
  /\ \A f \in (DOMAIN inst) \cap OperandFields : inst[f].kind # "panic"
  /\ "op" \in DOMAIN inst => inst.op # Unreachable

\* MachBuffer after inst.emit(...): the instruction goes to the end of the buffer.
EmitInto(buf, inst) == Append(buf, inst)

\* An emit that puts the instruction at the front of the buffer instead.
emit_AtFront(m, inst) ==
  IF ~m.ok THEN m
  ELSE IF Constructs(inst) THEN [m EXCEPT !.buffer = <<inst>> \o @]
  ELSE [m EXCEPT !.ok = FALSE]

\* self.emit(inst), with the evaluation of its argument
emit(m, inst) ==
  IF ~m.ok THEN m
  ELSE IF Constructs(inst) THEN [m EXCEPT !.buffer = EmitInto(@, inst)]
  ELSE [m EXCEPT !.ok = FALSE]

\* assert!(cond)
assert(m, cond) == IF m.ok /\ ~cond THEN [m EXCEPT !.ok = FALSE] ELSE m

(***************************************************************************)
(* ConstantPool, VCodeConstants and the MachBuffer's constant registry.    *)
(***************************************************************************)
\* ConstantPool::insert: the handle of the content, a new one only for new content
PoolHandleOf(p, data) == CHOOSE h \in 1..Len(p) : p[h] = data
PoolInsert(p, data) ==
  IF \E h \in 1..Len(p) : p[h] = data
  THEN [pool |-> p, handle |-> PoolHandleOf(p, data)]
  ELSE [pool |-> Append(p, data), handle |-> Len(p) + 1]
\* ConstantPool::get
PoolGet(p, handle) == p[handle]

\* VCodeConstants::pool_uses
PoolUses(cs, data) == \E i \in 1..Len(cs) : cs[i].handle = data.handle
\* VCodeConstants::insert: one entry per pool handle
VCodeInsert(cs, data) ==
  IF PoolUses(cs, data)
  THEN [constants |-> cs, constant |-> CHOOSE i \in 1..Len(cs) : cs[i].handle = data.handle]
  ELSE [constants |-> Append(cs, data), constant |-> Len(cs) + 1]
\* MachBuffer::register_constant
RegisterConstant(bc, constant, data) == Append(bc, [constant |-> constant, data |-> data.data])

NeedsRegistrationAlways(cs, data) == TRUE
NeedsRegistrationInverted(cs, data) == PoolUses(cs, data)
\* let needs_registration = !constants.pool_uses(&data);
NeedsRegistration(cs, data) == ~PoolUses(cs, data)

\* Assembler::to_synthetic_amode: the machine afterwards and the operand
to_synthetic_amode(m, addr) ==
  IF ~m.ok THEN [m |-> m, amode |-> Panic]
  ELSE IF addr.kind = "Offset"
  THEN [m |-> m,
        amode |-> [kind |-> "Real", simm32 |-> addr.offset, base |-> PlainReg(addr.base)]]
  ELSE LET constant_data == PoolGet(pool, addr.handle)
           data == [handle |-> addr.handle, data |-> constant_data]
           needs_registration == NeedsRegistration(m.constants, data)
           ins == VCodeInsert(m.constants, data)
           amode == [kind |-> "ConstantOffset", constant |-> ins.constant]
       IN [m |-> [m EXCEPT !.constants = ins.constants,
                           !.buffer_constants =
                               IF needs_registration
                               THEN RegisterConstant(@, ins.constant, data)
                               ELSE @,
                           !.resolved = @ \cup {[handle |-> addr.handle, amode |-> amode]}],
           amode |-> amode]

(***************************************************************************)
(* Construction, the frame of an emission call, the pool, finalization.    *)
(* Each public method below is one action.                                 *)
(***************************************************************************)
NoOutput == [kind |-> "none"]
NoCall == [op |-> "new"]

\* Assembler::new, with the flag snapshot the caller passes
New(flags, n) ==
  /\ buffer = <<>>
  /\ buffer_constants = <<>>
  /\ pool = <<>>
  /\ constants = <<>>
  /\ isa_flags = flags
  /\ status = "live"
  /\ output = NoOutput
  /\ call = NoCall
  /\ returned = {}
  /\ resolved = {}
  /\ calls = <<>>
  /\ fuel = n

\* An emission method returns or panics, leaving the machine as its body left it.
Emission(c, m) ==
  /\ buffer' = m.buffer
  /\ buffer_constants' = m.buffer_constants
  /\ constants' = m.constants
  /\ resolved' = m.resolved
  /\ status' = IF m.ok THEN "live" ELSE "panicked"
  /\ call' = c
  /\ calls' = Append(calls, [call |-> c, ok |-> m.ok])
  /\ fuel' = fuel - 1
  /\ UNCHANGED <<pool, isa_flags, output, returned>>

CanEmit == status = "live" /\ fuel > 0

\* An add_constant that keeps only the latest content in the pool.
AddConstant_Overwriting ==
  \E constant \in Blobs :
    LET addr == AddrConst(1)
    IN /\ status = "live"
       /\ pool' = <<constant>>
       /\ returned' = returned \cup {[content |-> constant, addr |-> addr]}
       /\ call' = [op |-> "add_constant", constant |-> constant, ret |-> addr]
       /\ UNCHANGED <<buffer, buffer_constants, constants, isa_flags, status, output,
                      resolved, calls, fuel>>

\* An add_constant that registers the content with the buffer at once.
AddConstant_Eager ==
  \E constant \in Blobs :
    LET r == PoolInsert(pool, constant)
        addr == AddrConst(r.handle)
        data == [handle |-> r.handle, data |-> constant]
        ins == VCodeInsert(constants, data)
    IN /\ status = "live"
       /\ pool' = r.pool
       /\ constants' = ins.constants
       /\ buffer_constants' = IF NeedsRegistration(constants, data)
                              THEN RegisterConstant(buffer_constants, ins.constant, data)
                              ELSE buffer_constants
       /\ returned' = returned \cup {[content |-> constant, addr |-> addr]}
       /\ call' = [op |-> "add_constant", constant |-> constant, ret |-> addr]
       /\ UNCHANGED <<buffer, isa_flags, status, output, resolved, calls, fuel>>

\* Assembler::add_constant
AddConstant ==
  \E constant \in Blobs :
    LET r == PoolInsert(pool, constant)
        addr == AddrConst(r.handle)
    IN /\ status = "live"
       /\ pool' = r.pool
       /\ returned' = returned \cup {[content |-> constant, addr |-> addr]}
       /\ call' = [op |-> "add_constant", constant |-> constant, ret |-> addr]
       /\ UNCHANGED <<buffer, buffer_constants, constants, isa_flags, status, output,
                      resolved, calls, fuel>>

\* MachBuffer::finish: the instructions in buffer order, and the registered constants
Finish(buf, bc) == [kind |-> "finalized", insts |-> buf,
                    consts |-> [i \in 1..Len(bc) |-> bc[i].data]]

\* Assembler::finalize
Finalize ==
  /\ status = "live"
  /\ output' = Finish(buffer, buffer_constants)
  /\ status' = "finalized"
  /\ call' = [op |-> "finalize"]
  /\ UNCHANGED <<buffer, buffer_constants, pool, constants, isa_flags, returned,
                 resolved, calls, fuel>>

(***************************************************************************)
(* Data movement.                                                          *)
(***************************************************************************)
mov_rm(m, src, addr, size) ==
  LET m1 == assert(m, is_offset(addr))
      r == to_synthetic_amode(m1, addr)
  IN emit(r.m, [inst |-> "MovRM", size |-> ArgsOperandSize(size),
                src |-> GprFromReg(src), dst |-> r.amode])

mov_im(m, src, addr, size) ==
  LET m1 == assert(m, is_offset(addr))
      r == to_synthetic_amode(m1, addr)
  IN emit(r.m, [inst |-> "MovImmM", size |-> ArgsOperandSize(size),
                simm32 |-> src, dst |-> r.amode])

\* A load that sign-extends the sizes below 64 bits instead.
mov_mr_SignExtending(m, addr, dst, size) ==
  LET r == to_synthetic_amode(m, addr)
  IN IF size = "S64"
     THEN emit(r.m, [inst |-> "Mov64MR", src |-> r.amode, dst |-> WritableGprFromReg(dst)])
     ELSE emit(r.m, [inst |-> "MovsxRmR", ext_mode |-> "LQ",
                     src |-> GprMemFromMem(r.amode), dst |-> WritableGprFromReg(dst)])

mov_mr(m, addr, dst, size) ==
  LET r == to_synthetic_amode(m, addr)
  IN IF size = "S64"
     THEN emit(r.m, [inst |-> "Mov64MR", src |-> r.amode, dst |-> WritableGprFromReg(dst)])
     ELSE emit(r.m, [inst |-> "MovzxRmR", ext_mode |-> "LQ",
                     src |-> GprMemFromMem(r.amode), dst |-> WritableGprFromReg(dst)])

XmmMovOp(size) ==
  CASE size = "S32" -> "Movss"
    [] size = "S64" -> "Movsd"
    [] size = "S128" -> "Movdqu"

xmm_mov_mr(m, src, dst, size) ==
  LET m1 == assert(m, IsXmmClass(dst))
      r == to_synthetic_amode(m1, src)
  IN emit(r.m, [inst |-> "XmmUnaryRmRUnaligned", op |-> XmmMovOp(size),
                src |-> XmmMemFromMem(r.amode), dst |-> WritableXmmFromReg(dst)])

xmm_mov_rm(m, src, dst, size) ==
  LET m1 == assert(m, IsXmmClass(src))
      r == to_synthetic_amode(m1, dst)
  IN emit(r.m, [inst |-> "XmmMovRM", op |-> XmmMovOp(size),
                src |-> XmmFromReg(src), dst |-> r.amode])

MovRm ==
  \E src \in Regs2, addr \in Addresses, size \in Sizes :
    /\ CanEmit
    /\ Emission([op |-> "mov_rm", src |-> src, addr |-> addr, size |-> size],
                mov_rm(Machine, src, addr, size))

MovIm ==
  \E src \in Imms, addr \in Addresses, size \in Sizes :
    /\ CanEmit
    /\ Emission([op |-> "mov_im", imm |-> src, addr |-> addr, size |-> size],
                mov_im(Machine, src, addr, size))

MovMr ==
  \E addr \in Addresses, dst \in Regs2, size \in Sizes :
    /\ CanEmit
    /\ Emission([op |-> "mov_mr", addr |-> addr, dst |-> dst, size |-> size],
                mov_mr(Machine, addr, dst, size))

XmmMovMr ==
  \E src \in Addresses, dst \in Regs2, size \in Sizes :
    /\ CanEmit
    /\ Emission([op |-> "xmm_mov_mr", addr |-> src, dst |-> dst, size |-> size],
                xmm_mov_mr(Machine, src, dst, size))

XmmMovRm ==
  \E src \in Regs2, dst \in Addresses, size \in Sizes :
    /\ CanEmit
    /\ Emission([op |-> "xmm_mov_rm", src |-> src, addr |-> dst, size |-> size],
                xmm_mov_rm(Machine, src, dst, size))

(***************************************************************************)
(* Stack, register moves and conditional moves.                            *)
(***************************************************************************)
\* Assembler::push_r
PushR ==
  \E reg \in Regs2 :
    /\ CanEmit
    /\ Emission([op |-> "push_r", reg |-> reg],
                emit(Machine,
                     [inst |-> "Push64", src |-> GprMemImmFromReg(reg)]))

\* Assembler::pop_r
PopR ==
  \E dst \in Regs2 :
    /\ CanEmit
    /\ Emission([op |-> "pop_r", dst |-> dst],
                emit(Machine,
                     [inst |-> "Pop64", dst |-> WritableGprFromReg(dst)]))

\* Assembler::ret
Ret ==
  /\ CanEmit
  /\ Emission([op |-> "ret"],
              emit(Machine,
                     [inst |-> "Ret", stack_bytes_to_pop |-> 0]))

\* Assembler::mov_rr
MovRr ==
  \E src \in Regs2, dst \in Regs2, size \in Sizes :
    /\ CanEmit
    /\ Emission([op |-> "mov_rr", src |-> src, dst |-> dst, size |-> size],
                emit(Machine,
                     [inst |-> "MovRR", src |-> GprFromReg(src),
                      dst |-> WritableGprFromReg(dst), size |-> ArgsOperandSize(size)]))

\* Assembler::mov_ir
MovIr ==
  \E imm \in Imms, dst \in Regs2, size \in Sizes :
    /\ CanEmit
    /\ Emission([op |-> "mov_ir", imm |-> imm, dst |-> dst, size |-> size],
                emit(Machine,
                     [inst |-> "Imm", dst_size |-> ArgsOperandSize(size), simm64 |-> imm,
                      dst |-> WritableGprFromReg(dst)]))

\* Assembler::cmov
Cmov ==
  \E src \in Regs2, dst \in Regs2, cc \in SomeCmpKinds, size \in Sizes :
    /\ CanEmit
    /\ Emission([op |-> "cmov", src |-> src, dst |-> dst, cc |-> cc, size |-> size],
                emit(Machine,
                     [inst |-> "Cmove", size |-> ArgsOperandSize(size), cc |-> CCFrom(cc),
                      consequent |-> GprMemFromReg(src), alternative |-> GprFromReg(dst),
                      dst |-> WritableGprFromReg(dst)]))

\* match size in xmm_mov_rr
XmmMovRrOp(size) ==
  CASE size = "S32" -> "Movaps"
    [] size = "S64" -> "Movapd"
    [] size = "S128" -> "Movdqa"

\* Assembler::xmm_mov_rr
XmmMovRr ==
  \E src \in Regs2, dst \in Regs2, size \in Sizes :
    /\ CanEmit
    /\ Emission([op |-> "xmm_mov_rr", src |-> src, dst |-> dst, size |-> size],
                emit(Machine,
                     [inst |-> "XmmUnaryRmRUnaligned", op |-> XmmMovRrOp(size),
                      src |-> XmmMemFromReg(src), dst |-> WritableXmmFromReg(dst)]))

\* match size in xmm_cmov
XmmCmoveTy(size) ==
  CASE size = "S32" -> "F32"
    [] size = "S64" -> "F64"
    [] size = "S128" -> "I128"

\* Assembler::xmm_cmov
XmmCmov ==
  \E src \in Regs2, dst \in Regs2, cc \in SomeCmpKinds, size \in Sizes :
    /\ CanEmit
    /\ Emission([op |-> "xmm_cmov", src |-> src, dst |-> dst, cc |-> cc, size |-> size],
                emit(Machine,
                     [inst |-> "XmmCmove", ty |-> XmmCmoveTy(size), cc |-> CCFrom(cc),
                      consequent |-> XmmMemAlignedFromReg(src), alternative |-> XmmFromReg(dst),
                      dst |-> WritableXmmFromReg(dst)]))

(***************************************************************************)
(* Integer arithmetic and logic, shifts.                                   *)
(***************************************************************************)
\* An ALU instruction that reads and writes src instead of dst.
AluRmiR_rr_IntoSrc(op, src, dst, size) ==
  [inst |-> "AluRmiR", size |-> ArgsOperandSize(size), op |-> op,
   src1 |-> GprFromReg(src), src2 |-> GprMemImmFromReg(dst), dst |-> WritableGprFromReg(src)]

\* Inst::AluRmiR { size, op, src1: dst, src2: src, dst } with a register source
AluRmiR_rr(op, src, dst, size) ==
  [inst |-> "AluRmiR", size |-> ArgsOperandSize(size), op |-> op,
   src1 |-> GprFromReg(dst), src2 |-> GprMemImmFromReg(src), dst |-> WritableGprFromReg(dst)]

\* Inst::AluRmiR { size, op, src1: dst, src2: imm, dst } with an immediate source
AluRmiR_ir(op, imm, dst, size) ==
  [inst |-> "AluRmiR", size |-> ArgsOperandSize(size), op |-> op,
   src1 |-> GprFromReg(dst), src2 |-> GprMemImmFromImm(imm), dst |-> WritableGprFromReg(dst)]

\* Assembler::sub_rr
SubRr ==
  \E src \in Regs, dst \in Regs2, size \in Sizes :
    /\ CanEmit
    /\ Emission([op |-> "sub_rr", src |-> src, dst |-> dst, size |-> size],
                emit(Machine,
                     AluRmiR_rr("Sub", src, dst, size)))

\* Assembler::sub_ir
SubIr ==
  \E imm \in Imms, dst \in Regs2, size \in Sizes :
    /\ CanEmit
    /\ Emission([op |-> "sub_ir", imm |-> imm, dst |-> dst, size |-> size],
                emit(Machine,
                     AluRmiR_ir("Sub", imm, dst, size)))

\* Assembler::and_rr
AndRr ==
  \E src \in Regs, dst \in Regs2, size \in Sizes :
    /\ CanEmit
    /\ Emission([op |-> "and_rr", src |-> src, dst |-> dst, size |-> size],
                emit(Machine,
                     AluRmiR_rr("And", src, dst, size)))

\* Assembler::and_ir
AndIr ==
  \E imm \in Imms, dst \in Regs2, size \in Sizes :
    /\ CanEmit
    /\ Emission([op |-> "and_ir", imm |-> imm, dst |-> dst, size |-> size],
                emit(Machine,
                     AluRmiR_ir("And", imm, dst, size)))

\* Assembler::or_rr
OrRr ==
  \E src \in Regs, dst \in Regs2, size \in Sizes :
    /\ CanEmit
    /\ Emission([op |-> "or_rr", src |-> src, dst |-> dst, size |-> size],
                emit(Machine,
                     AluRmiR_rr("Or", src, dst, size)))

\* Assembler::or_ir
OrIr ==
  \E imm \in Imms, dst \in Regs2, size \in Sizes :
    /\ CanEmit
    /\ Emission([op |-> "or_ir", imm |-> imm, dst |-> dst, size |-> size],
                emit(Machine,
                     AluRmiR_ir("Or", imm, dst, size)))

\* Assembler::xor_rr
XorRr ==
  \E src \in Regs, dst \in Regs2, size \in Sizes :
    /\ CanEmit
    /\ Emission([op |-> "xor_rr", src |-> src, dst |-> dst, size |-> size],
                emit(Machine,
                     AluRmiR_rr("Xor", src, dst, size)))

\* Assembler::xor_ir
XorIr ==
  \E imm \in Imms, dst \in Regs2, size \in Sizes :
    /\ CanEmit
    /\ Emission([op |-> "xor_ir", imm |-> imm, dst |-> dst, size |-> size],
                emit(Machine,
                     AluRmiR_ir("Xor", imm, dst, size)))

\* Assembler::mul_ir
MulIr ==
  \E imm \in Imms, dst \in Regs2, size \in Sizes :
    /\ CanEmit
    /\ Emission([op |-> "mul_ir", imm |-> imm, dst |-> dst, size |-> size],
                emit(Machine,
                     AluRmiR_ir("Mul", imm, dst, size)))

\* Assembler::mul_rr
MulRr ==
  \E src \in Regs, dst \in Regs2, size \in Sizes :
    /\ CanEmit
    /\ Emission([op |-> "mul_rr", src |-> src, dst |-> dst, size |-> size],
                emit(Machine,
                     AluRmiR_rr("Mul", src, dst, size)))

\* Assembler::add_ir
AddIr ==
  \E imm \in Imms, dst \in Regs2, size \in Sizes :
    /\ CanEmit
    /\ Emission([op |-> "add_ir", imm |-> imm, dst |-> dst, size |-> size],
                emit(Machine,
                     AluRmiR_ir("Add", imm, dst, size)))

\* Assembler::add_rr
AddRr ==
  \E src \in Regs, dst \in Regs2, size \in Sizes :
    /\ CanEmit
    /\ Emission([op |-> "add_rr", src |-> src, dst |-> dst, size |-> size],
                emit(Machine,
                     AluRmiR_rr("Add", src, dst, size)))

\* Assembler::shift_rr
ShiftRr ==
  \E src \in Regs2, dst \in Regs2, kind \in ShiftKinds, size \in Sizes :
    /\ CanEmit
    /\ Emission([op |-> "shift_rr", src |-> src, dst |-> dst, kind |-> kind, size |-> size],
                emit(Machine,
                     [inst |-> "ShiftR", size |-> ArgsOperandSize(size),
                      kind |-> CraneliftShiftKindFrom(kind), src |-> GprFromReg(dst),
                      num_bits |-> Imm8GprFromReg(src), dst |-> WritableGprFromReg(dst)]))

\* Assembler::shift_ir
ShiftIr ==
  \E imm \in Imms, dst \in Regs2, kind \in ShiftKinds, size \in Sizes :
    /\ CanEmit
    /\ Emission([op |-> "shift_ir", imm |-> imm, dst |-> dst, kind |-> kind, size |-> size],
                emit(Machine,
                     [inst |-> "ShiftR", size |-> ArgsOperandSize(size),
                      kind |-> CraneliftShiftKindFrom(kind), src |-> GprFromReg(dst),
                      num_bits |-> Imm8GprFromImm(imm), dst |-> WritableGprFromReg(dst)]))

(***************************************************************************)
(* Float bitwise operations and the GPR-to-XMM move.                       *)
(***************************************************************************)
\* A selection that answers the double-precision opcode for the vector width.
ScalarOp_VectorAsDouble(size, single, double) ==
  CASE size = "S32" -> single
    [] size = "S64" -> double
    [] size = "S128" -> double

\* match size { S32 => single, S64 => double, S128 => unreachable!() }
ScalarOp(size, single, double) ==
  CASE size = "S32" -> single
    [] size = "S64" -> double
    [] size = "S128" -> Unreachable

\* Inst::XmmRmR { op, src1: dst, src2: src, dst }
XmmRmR(op, src, dst) ==
  [inst |-> "XmmRmR", op |-> op, src1 |-> XmmFromReg(dst),
   src2 |-> XmmMemAlignedFromReg(src), dst |-> WritableXmmFromReg(dst)]

\* Assembler::xmm_and_rr
XmmAndRr ==
  \E src \in Regs2, dst \in Regs2, size \in Sizes :
    /\ CanEmit
    /\ Emission([op |-> "xmm_and_rr", src |-> src, dst |-> dst, size |-> size],
                emit(Machine,
                     XmmRmR(ScalarOp(size, "Andps", "Andpd"), src, dst)))

\* Assembler::xmm_andn_rr
XmmAndnRr ==
  \E src \in Regs2, dst \in Regs2, size \in Sizes :
    /\ CanEmit
    /\ Emission([op |-> "xmm_andn_rr", src |-> src, dst |-> dst, size |-> size],
                emit(Machine,
                     XmmRmR(ScalarOp(size, "Andnps", "Andnpd"), src, dst)))

\* Assembler::xmm_or_rr
XmmOrRr ==
  \E src \in Regs2, dst \in Regs2, size \in Sizes :
    /\ CanEmit
    /\ Emission([op |-> "xmm_or_rr", src |-> src, dst |-> dst, size |-> size],
                emit(Machine,
                     XmmRmR(ScalarOp(size, "Orps", "Orpd"), src, dst)))

\* Assembler::xmm_xor_rr
XmmXorRr ==
  \E src \in Regs2, dst \in Regs2, size \in Sizes :
    /\ CanEmit
    /\ Emission([op |-> "xmm_xor_rr", src |-> src, dst |-> dst, size |-> size],
                emit(Machine,
                     XmmRmR(ScalarOp(size, "Xorps", "Xorpd"), src, dst)))

\* Assembler::gpr_to_xmm
GprToXmm ==
  \E src \in Regs2, dst \in Regs2, size \in Sizes :
    /\ CanEmit
    /\ Emission([op |-> "gpr_to_xmm", src |-> src, dst |-> dst, size |-> size],
                emit(Machine,
                     [inst |-> "GprToXmm", op |-> ScalarOp(size, "Movd", "Movq"),
                      src |-> GprMemFromReg(src), dst |-> WritableXmmFromReg(dst),
                      src_size |-> ArgsOperandSize(size)]))

(***************************************************************************)
(* Division and remainder.                                                 *)
(***************************************************************************)
ZeroWithImm(reg, size) ==
  [inst |-> "Imm", dst_size |-> ArgsOperandSize(size), simm64 |-> 0,
   dst |-> WritableGprFromReg(reg)]
\* The self-xor that zeroes dividend_hi (asm.rs 623-629 and 676-682)
XorSelf(reg, size) ==
  [inst |-> "AluRmiR", size |-> ArgsOperandSize(size), op |-> "Xor",
   src1 |-> GprFromReg(reg), src2 |-> GprMemImmFromReg(reg), dst |-> WritableGprFromReg(reg)]

\* Inst::SignExtendData { size, src: dst.0, dst: dst.1 }
SignExtendData(dst, size) ==
  [inst |-> "SignExtendData", size |-> ArgsOperandSize(size),
   src |-> GprFromReg(dst[1]), dst |-> WritableGprFromReg(dst[2])]

\* Inst::Div { sign, size, trap, divisor, dividend_lo, dividend_hi, dst_quotient, dst_remainder }
DivInst(sign, trap, divisor, dst, size) ==
  [inst |-> "Div", sign |-> sign, size |-> ArgsOperandSize(size), trap |-> trap,
   divisor |-> GprMemFromReg(divisor),
   dividend_lo |-> GprFromReg(dst[1]), dividend_hi |-> GprFromReg(dst[2]),
   dst_quotient |-> WritableGprFromReg(dst[1]),
   dst_remainder |-> WritableGprFromReg(dst[2])]

div_ZeroCheckAfterDivide(m, divisor, dst, kind, size) ==
  IF kind = "Signed"
  THEN LET m1 == emit(m, SignExtendData(dst, size))
           m2 == emit(m1, DivInst(DivSignednessFrom(kind), "IntegerOverflow", divisor, dst,
                                  size))
           m3 == emit(m2, [inst |-> "CmpRmiR", size |-> ArgsOperandSize(size),
                           src |-> GprMemImmFromImm(0), dst |-> GprFromReg(divisor),
                           opcode |-> "Cmp"])
       IN emit(m3, [inst |-> "TrapIf", cc |-> "Z", trap_code |-> "IntegerDivisionByZero"])
  ELSE LET m1 == emit(m, XorSelf(dst[2], size))
       IN emit(m1, DivInst(DivSignednessFrom(kind), "IntegerDivisionByZero",
                           divisor, dst, size))

div(m, divisor, dst, kind, size) ==
  IF kind = "Signed"
  THEN LET m1 == emit(m, [inst |-> "CmpRmiR", size |-> ArgsOperandSize(size),
                          src |-> GprMemImmFromImm(0), dst |-> GprFromReg(divisor),
                          opcode |-> "Cmp"])
           m2 == emit(m1, [inst |-> "TrapIf", cc |-> "Z",
                           trap_code |-> "IntegerDivisionByZero"])
           m3 == emit(m2, SignExtendData(dst, size))
       IN emit(m3, DivInst(DivSignednessFrom(kind), "IntegerOverflow", divisor, dst, size))
  ELSE LET m1 == emit(m, XorSelf(dst[2], size))
       IN emit(m1, DivInst(DivSignednessFrom(kind), "IntegerDivisionByZero",
                           divisor, dst, size))

rem_SignedThroughDivide(m, divisor, dst, kind, size) ==
  LET m1 == emit(m, IF kind = "Signed" THEN SignExtendData(dst, size)
                    ELSE XorSelf(dst[2], size))
  IN emit(m1, DivInst(kind, IF kind = "Signed" THEN "IntegerOverflow"
                            ELSE "IntegerDivisionByZero", divisor, dst, size))

\* A remainder whose unsigned case leaves dividend_hi as it is.
rem_UnsignedWithoutZeroing(m, divisor, dst, kind, size) ==
  IF kind = "Signed"
  THEN LET m1 == emit(m, SignExtendData(dst, size))
       IN emit(m1, [inst |-> "CheckedSRemSeq", size |-> ArgsOperandSize(size),
                    divisor |-> GprFromReg(divisor),
                    dividend_lo |-> GprFromReg(dst[1]), dividend_hi |-> GprFromReg(dst[2]),
                    dst_quotient |-> WritableGprFromReg(dst[1]),
                    dst_remainder |-> WritableGprFromReg(dst[2])])
  ELSE emit(m, DivInst("Unsigned", "IntegerDivisionByZero", divisor, dst, size))

rem(m, divisor, dst, kind, size) ==
  IF kind = "Signed"
  THEN LET m1 == emit(m, SignExtendData(dst, size))
       IN emit(m1, [inst |-> "CheckedSRemSeq", size |-> ArgsOperandSize(size),
                    divisor |-> GprFromReg(divisor),
                    dividend_lo |-> GprFromReg(dst[1]), dividend_hi |-> GprFromReg(dst[2]),
                    dst_quotient |-> WritableGprFromReg(dst[1]),
                    dst_remainder |-> WritableGprFromReg(dst[2])])
  ELSE LET m1 == emit(m, XorSelf(dst[2], size))
       IN emit(m1, DivInst("Unsigned", "IntegerDivisionByZero", divisor, dst, size))

Div ==
  \E divisor \in Regs, dst \in DstPairs, kind \in DivKinds, size \in Sizes :
    /\ CanEmit
    /\ Emission([op |-> "div", divisor |-> divisor, dst |-> dst, kind |-> kind,
                 size |-> size],
                div(Machine, divisor, dst, kind, size))

Rem ==
  \E divisor \in Regs, dst \in DstPairs, kind \in DivKinds, size \in Sizes :
    /\ CanEmit
    /\ Emission([op |-> "rem", divisor |-> divisor, dst |-> dst, kind |-> kind,
                 size |-> size],
                rem(Machine, divisor, dst, kind, size))

(***************************************************************************)
(* Compare, test, set-on-condition, bit counting, negation.                *)
(***************************************************************************)
\* Assembler::cmp_ir
CmpIr ==
  \E imm \in Imms, dst \in Regs2, size \in Sizes :
    /\ CanEmit
    /\ Emission([op |-> "cmp_ir", imm |-> imm, dst |-> dst, size |-> size],
                emit(Machine,
                     [inst |-> "CmpRmiR", size |-> ArgsOperandSize(size), opcode |-> "Cmp",
                      src |-> GprMemImmFromImm(imm), dst |-> GprFromReg(dst)]))

\* Assembler::cmp_rr
CmpRr ==
  \E src \in Regs2, dst \in Regs2, size \in Sizes :
    /\ CanEmit
    /\ Emission([op |-> "cmp_rr", src |-> src, dst |-> dst, size |-> size],
                emit(Machine,
                     [inst |-> "CmpRmiR", size |-> ArgsOperandSize(size), opcode |-> "Cmp",
                      src |-> GprMemImmFromReg(src), dst |-> GprFromReg(dst)]))

\* Assembler::test_rr
TestRr ==
  \E src \in Regs2, dst \in Regs2, size \in Sizes :
    /\ CanEmit
    /\ Emission([op |-> "test_rr", src |-> src, dst |-> dst, size |-> size],
                emit(Machine,
                     [inst |-> "CmpRmiR", size |-> ArgsOperandSize(size), opcode |-> "Test",
                      src |-> GprMemImmFromReg(src), dst |-> GprFromReg(dst)]))

\* Assembler::ucomis
Ucomis ==
  \E src \in Regs2, dst \in Regs2, size \in Sizes :
    /\ CanEmit
    /\ Emission([op |-> "ucomis", src |-> src, dst |-> dst, size |-> size],
                emit(Machine,
                     [inst |-> "XmmCmpRmR", op |-> ScalarOp(size, "Ucomiss", "Ucomisd"),
                      src |-> XmmMemFromReg(src), dst |-> XmmFromReg(dst)]))

\* Clearing dst by an xor of dst with itself instead.
ZeroingInst_XorSelf(dst) ==
  [inst |-> "AluRmiR", size |-> [kind |-> "OperandSize", v |-> "Size32"], op |-> "Xor",
   src1 |-> GprFromReg(dst), src2 |-> GprMemImmFromReg(dst), dst |-> WritableGprFromReg(dst)]

\* The instruction that clears dst before the set instruction (asm.rs 825-829)
ZeroingInst(dst) ==
  [inst |-> "Imm", dst_size |-> [kind |-> "OperandSize", v |-> "Size32"], simm64 |-> 0,
   dst |-> WritableGprFromReg(dst)]

setcc_impl(m, cc, dst) ==
  LET m1 == emit(m, ZeroingInst(dst))
  IN emit(m1, [inst |-> "Setcc", cc |-> cc, dst |-> WritableGprFromReg(dst)])

\* Assembler::setcc
Setcc ==
  \E kind \in IntCmpKinds, dst \in Regs2 :
    /\ CanEmit
    /\ Emission([op |-> "setcc", kind |-> kind, dst |-> dst],
                setcc_impl(Machine, CCFrom(kind), dst))

\* Assembler::setp
Setp ==
  \E dst \in Regs2 :
    /\ CanEmit
    /\ Emission([op |-> "setp", dst |-> dst], setcc_impl(Machine, "P", dst))

\* Assembler::setnp
Setnp ==
  \E dst \in Regs2 :
    /\ CanEmit
    /\ Emission([op |-> "setnp", dst |-> dst], setcc_impl(Machine, "NP", dst))

\* Inst::UnaryRmR { size, op, src, dst }
UnaryRmR(op, src, dst, size) ==
  [inst |-> "UnaryRmR", size |-> ArgsOperandSize(size), op |-> op,
   src |-> GprMemFromReg(src), dst |-> WritableGprFromReg(dst)]

\* A popcnt that asks for has_popcnt only.
PopcntRequires_PopcntOnly(flags) == flags.has_popcnt

\* The flags popcnt, lzcnt and tzcnt assert
PopcntRequires(flags) == flags.has_popcnt /\ flags.has_sse42
LzcntRequires(flags) == flags.has_lzcnt
TzcntRequires(flags) == flags.has_bmi1

\* Assembler::popcnt
Popcnt ==
  \E src \in Regs2, size \in Sizes :
    /\ CanEmit
    /\ Emission([op |-> "popcnt", src |-> src, size |-> size],
                emit(assert(Machine, PopcntRequires(isa_flags)),
                     UnaryRmR("Popcnt", src, src, size)))

\* Assembler::lzcnt
Lzcnt ==
  \E src \in Regs2, dst \in Regs2, size \in Sizes :
    /\ CanEmit
    /\ Emission([op |-> "lzcnt", src |-> src, dst |-> dst, size |-> size],
                emit(assert(Machine, LzcntRequires(isa_flags)),
                     UnaryRmR("Lzcnt", src, dst, size)))

\* Assembler::tzcnt
Tzcnt ==
  \E src \in Regs2, dst \in Regs2, size \in Sizes :
    /\ CanEmit
    /\ Emission([op |-> "tzcnt", src |-> src, dst |-> dst, size |-> size],
                emit(assert(Machine, TzcntRequires(isa_flags)),
                     UnaryRmR("Tzcnt", src, dst, size)))

\* Assembler::bsr
Bsr ==
  \E src \in Regs2, dst \in Regs2, size \in Sizes :
    /\ CanEmit
    /\ Emission([op |-> "bsr", src |-> src, dst |-> dst, size |-> size],
                emit(Machine,
                     UnaryRmR("Bsr", src, dst, size)))

\* Assembler::neg
Neg ==
  \E src \in Regs2, dst \in Regs2, size \in Sizes :
    /\ CanEmit
    /\ Emission([op |-> "neg", src |-> src, dst |-> dst, size |-> size],
                emit(Machine,
                     [inst |-> "Neg", size |-> ArgsOperandSize(size), src |-> GprFromReg(src),
                      dst |-> WritableGprFromReg(dst)]))

\* Assembler::bsf
Bsf ==
  \E src \in Regs2, dst \in Regs2, size \in Sizes :
    /\ CanEmit
    /\ Emission([op |-> "bsf", src |-> src, dst |-> dst, size |-> size],
                emit(Machine,
                     UnaryRmR("Bsf", src, dst, size)))

(***************************************************************************)
(* Float arithmetic, min/max, rounding, square root.                       *)
(***************************************************************************)
\* Inst::XmmRmRUnaligned { op, src1: dst, src2: src, dst }
XmmRmRUnaligned(op, src, dst) ==
  [inst |-> "XmmRmRUnaligned", op |-> op, src1 |-> XmmFromReg(dst),
   src2 |-> XmmMemFromReg(src), dst |-> WritableXmmFromReg(dst)]

\* Assembler::xmm_add_rr
XmmAddRr ==
  \E src \in Regs2, dst \in Regs2, size \in Sizes :
    /\ CanEmit
    /\ Emission([op |-> "xmm_add_rr", src |-> src, dst |-> dst, size |-> size],
                emit(Machine,
                     XmmRmRUnaligned(ScalarOp(size, "Addss", "Addsd"), src, dst)))

\* Assembler::xmm_sub_rr
XmmSubRr ==
  \E src \in Regs2, dst \in Regs2, size \in Sizes :
    /\ CanEmit
    /\ Emission([op |-> "xmm_sub_rr", src |-> src, dst |-> dst, size |-> size],
                emit(Machine,
                     XmmRmRUnaligned(ScalarOp(size, "Subss", "Subsd"), src, dst)))

\* Assembler::xmm_mul_rr
XmmMulRr ==
  \E src \in Regs2, dst \in Regs2, size \in Sizes :
    /\ CanEmit
    /\ Emission([op |-> "xmm_mul_rr", src |-> src, dst |-> dst, size |-> size],
                emit(Machine,
                     XmmRmRUnaligned(ScalarOp(size, "Mulss", "Mulsd"), src, dst)))

\* Assembler::xmm_div_rr
XmmDivRr ==
  \E src \in Regs2, dst \in Regs2, size \in Sizes :
    /\ CanEmit
    /\ Emission([op |-> "xmm_div_rr", src |-> src, dst |-> dst, size |-> size],
                emit(Machine,
                     XmmRmRUnaligned(ScalarOp(size, "Divss", "Divsd"), src, dst)))

\* Inst::XmmMinMaxSeq { size, is_min, lhs: src, rhs: dst, dst }
XmmMinMaxSeq(is_min, src, dst, size) ==
  [inst |-> "XmmMinMaxSeq", size |-> ArgsOperandSize(size), is_min |-> is_min,
   lhs |-> XmmFromReg(src), rhs |-> XmmFromReg(dst), dst |-> WritableXmmFromReg(dst)]

\* Assembler::xmm_min_seq
XmmMinSeq ==
  \E src \in Regs2, dst \in Regs2, size \in Sizes :
    /\ CanEmit
    /\ Emission([op |-> "xmm_min_seq", src |-> src, dst |-> dst, size |-> size],
                emit(Machine,
                     XmmMinMaxSeq(TRUE, src, dst, size)))

\* Assembler::xmm_max_seq
XmmMaxSeq ==
  \E src \in Regs2, dst \in Regs2, size \in Sizes :
    /\ CanEmit
    /\ Emission([op |-> "xmm_max_seq", src |-> src, dst |-> dst, size |-> size],
                emit(Machine,
                     XmmMinMaxSeq(FALSE, src, dst, size)))

\* match mode in xmm_rounds_rr
RoundingImm(mode) ==
  CASE mode = "Nearest" -> 0
    [] mode = "Down" -> 1
    [] mode = "Up" -> 2
    [] mode = "Zero" -> 3

\* Assembler::xmm_rounds_rr
XmmRoundsRr ==
  \E src \in Regs2, dst \in Regs2, mode \in RoundingModes, size \in Sizes :
    /\ CanEmit
    /\ Emission([op |-> "xmm_rounds_rr", src |-> src, dst |-> dst, mode |-> mode, size |-> size],
                emit(Machine,
                     [inst |-> "XmmUnaryRmRImm", op |-> ScalarOp(size, "Roundss", "Roundsd"),
                      src |-> XmmMemAlignedFromReg(src), imm |-> RoundingImm(mode),
                      dst |-> WritableXmmFromReg(dst)]))

\* Assembler::sqrt
Sqrt ==
  \E src \in Regs2, dst \in Regs2, size \in Sizes :
    /\ CanEmit
    /\ Emission([op |-> "sqrt", src |-> src, dst |-> dst, size |-> size],
                emit(Machine,
                     [inst |-> "XmmUnaryRmR", op |-> ScalarOp(size, "Sqrtss", "Sqrtsd"),
                      src |-> XmmMemAlignedFromReg(src), dst |-> WritableXmmFromReg(dst)]))

(***************************************************************************)
(* Calls, jumps, traps.                                                    *)
(***************************************************************************)
\* CallInfo { uses: [], defs: [], clobbers: default, opcode: Call, ... SystemV }
EmptyCallInfo == [uses |-> <<>>, defs |-> <<>>, clobbers |-> {}, opcode |-> "Call",
                  callee_pop_size |-> 0, callee_conv |-> "SystemV"]

call_with_reg(m, callee) ==
  emit(m, [inst |-> "CallUnknown", dest |-> RegMemFromReg(callee), info |-> EmptyCallInfo])

\* Assembler::call_with_reg
CallWithReg ==
  \E callee \in Regs2 :
    /\ CanEmit
    /\ Emission([op |-> "call_with_reg", callee |-> callee], call_with_reg(Machine, callee))

\* Assembler::call_with_index
CallWithIndex ==
  \E index \in {0} :
    /\ CanEmit
    /\ Emission([op |-> "call_with_index", index |-> index],
                emit(Machine,
                     [inst |-> "CallKnown", dest |-> [kind |-> "User", index |-> index],
                      info |-> EmptyCallInfo]))

\* Assembler::call_with_lib
CallWithLib ==
  \E lib \in LibCalls :
    /\ CanEmit
    /\ Emission([op |-> "call_with_lib", lib |-> lib],
                emit(Machine,
                     [inst |-> "CallKnown", dest |-> [kind |-> "LibCall", lib |-> lib],
                      info |-> EmptyCallInfo]))

\* Assembler::jmp_if
JmpIf ==
  \E cc \in SomeCmpKinds, taken \in Labels :
    /\ CanEmit
    /\ Emission([op |-> "jmp_if", cc |-> cc, taken |-> taken],
                emit(Machine,
                     [inst |-> "JmpIf", cc |-> CCFrom(cc), taken |-> taken]))

\* Assembler::jmp
Jmp ==
  \E target \in Labels :
    /\ CanEmit
    /\ Emission([op |-> "jmp", target |-> target],
                emit(Machine,
                     [inst |-> "JmpKnown", dst |-> target]))

jmp_table(m, targets, default, index, tmp1, tmp2) ==
  emit(m, [inst |-> "JmpTableSeq", idx |-> PlainReg(index), tmp1 |-> WritableFromReg(tmp1),
           tmp2 |-> WritableFromReg(tmp2), default_target |-> default,
           targets |-> targets])

\* Assembler::jmp_table
JmpTable ==
  \E targets \in {<<L, L>> : L \in Labels}, default \in {[kind |-> "MachLabel", n |-> 0]},
     index \in Regs2, tmp1 \in Regs2, tmp2 \in Regs2 :
    /\ CanEmit
    /\ Emission([op |-> "jmp_table", targets |-> targets, default |-> default,
                 index |-> index, tmp1 |-> tmp1, tmp2 |-> tmp2],
                jmp_table(Machine, targets, default, index, tmp1, tmp2))

\* Assembler::trap
Trap ==
  \E code \in TrapCodes :
    /\ CanEmit
    /\ Emission([op |-> "trap", code |-> code],
                emit(Machine,
                     [inst |-> "Ud2", trap_code |-> code]))

\* Assembler::trapif
Trapif ==
  \E cc \in SomeCmpKinds, trap_code \in TrapCodes :
    /\ CanEmit
    /\ Emission([op |-> "trapif", cc |-> cc, trap_code |-> trap_code],
                emit(Machine,
                     [inst |-> "TrapIf", cc |-> CCFrom(cc), trap_code |-> trap_code]))

(***************************************************************************)
(* What the emitted instructions do on the target: a register as its eight *)
(* bytes (lowest first), the status flags, and the flags a compare leaves. *)
(***************************************************************************)
\* Bits of the words the compare semantics is evaluated on.
WordBits == 3
Words == 0..(2 ^ WordBits - 1)
\* Two's-complement reading of a word
Signed(v) == IF v >= 2 ^ (WordBits - 1) THEN v - 2 ^ WordBits ELSE v

\* The flags after "cmp a, b", which computes a - b and discards the result
CmpFlags(a, b) ==
  LET r == (a - b + 2 ^ WordBits) % (2 ^ WordBits)
      d == Signed(a) - Signed(b)
  IN [ZF |-> r = 0,
      CF |-> a - b < 0,
      SF |-> r >= 2 ^ (WordBits - 1),
      OF |-> d < -(2 ^ (WordBits - 1)) \/ d > 2 ^ (WordBits - 1) - 1,
      PF |-> Cardinality({i \in 0..(WordBits - 1) : (r \div (2 ^ i)) % 2 = 1}) % 2 = 0]

\* Whether a native condition holds under the flags
CondHolds(cc, f) ==
  CASE cc = "Z" -> f.ZF
    [] cc = "NZ" -> ~f.ZF
    [] cc = "L" -> f.SF # f.OF
    [] cc = "LE" -> f.ZF \/ f.SF # f.OF
    [] cc = "NLE" -> ~f.ZF /\ f.SF = f.OF
    [] cc = "NL" -> f.SF = f.OF
    [] cc = "B" -> f.CF
    [] cc = "BE" -> f.CF \/ f.ZF
    [] cc = "NBE" -> ~f.CF /\ ~f.ZF
    [] cc = "NB" -> ~f.CF
    [] cc = "P" -> f.PF
    [] cc = "NP" -> ~f.PF

\* The instructions that write the status flags
FlagWriters == {"AluRmiR", "CmpRmiR", "ShiftR", "Neg", "UnaryRmR", "Div", "CheckedSRemSeq",
                "XmmCmpRmR"}

\* Contents a register may hold before an operation, and every setting of the flags
RegValues == {<<0, 0, 0, 0, 0, 0, 0, 0>>, <<255, 255, 255, 255, 255, 255, 255, 255>>,
              <<1, 2, 3, 4, 5, 6, 7, 8>>}
StatusFlags == [ZF : BOOLEAN, CF : BOOLEAN, SF : BOOLEAN, OF : BOOLEAN, PF : BOOLEAN]

\* One instruction on (the bytes of its destination register, the flags).  A 32-bit
\* immediate load writes the low four bytes and clears the high four; set-on-condition
\* writes the lowest byte only; neither writes the flags.  A 32-bit xor of the register
\* with itself clears it and writes the flags of a zero result.
Execute(s, inst) ==
  CASE inst.inst = "Imm" ->
         [s EXCEPT !.value = [i \in 1..8 |-> IF i <= 4 THEN (inst.simm64 \div (256 ^ (i - 1))) % 256
                                            ELSE 0]]
    [] inst.inst = "Setcc" ->
         [s EXCEPT !.value[1] = IF CondHolds(inst.cc, s.flags) THEN 1 ELSE 0]
    [] inst.inst = "AluRmiR" /\ inst.op = "Xor" ->
         [value |-> [i \in 1..8 |-> 0],
          flags |-> [ZF |-> TRUE, CF |-> FALSE, SF |-> FALSE, OF |-> FALSE, PF |-> TRUE]]

RECURSIVE Run(_, _)
\* The instructions of a sequence, first to last
Run(s, insts) == IF insts = <<>> THEN s ELSE Run(Execute(s, Head(insts)), Tail(insts))

(***************************************************************************)
(* Specifications.                                                         *)
(***************************************************************************)
\* The constant pool, the methods that take an address, and one that takes none.
InitPool == New(FlagsOn, MaxEmits)
NextPool ==
  AddConstant \/ MovRm \/ MovIm \/ MovMr \/ XmmMovMr \/ XmmMovRm \/ Ret \/ Finalize
SpecPool == InitPool /\ [][NextPool]_vars

\* Division and remainder.
InitDiv == New(FlagsOn, MaxEmits)
NextDiv == Div \/ Rem \/ Finalize
SpecDiv == InitDiv /\ [][NextDiv]_vars

\* Compare and set-on-condition.
InitCmp == New(FlagsOn, MaxEmits)
NextCmp == CmpRr \/ Setcc \/ Setp \/ Setnp \/ Finalize
SpecCmp == InitCmp /\ [][NextCmp]_vars

\* Set-on-condition and the extension-gated bit counts, under every flag snapshot.
InitFlags == \E flags \in AllFlags : New(flags, MaxEmits)
NextFlags == Setcc \/ Setp \/ Setnp \/ Popcnt \/ Lzcnt \/ Tzcnt \/ Finalize
SpecFlags == InitFlags /\ [][NextFlags]_vars

\* Integer add, sub, and, or, xor and multiply, register and immediate forms.
InitAlu == New(FlagsOn, MaxEmits)
NextAlu ==
  \/ AddRr \/ AddIr \/ SubRr \/ SubIr \/ AndRr \/ AndIr \/ OrRr \/ OrIr \/ XorRr \/ XorIr
  \/ MulRr \/ MulIr \/ Finalize
SpecAlu == InitAlu /\ [][NextAlu]_vars

\* The float bitwise operations.
InitXmm == New(FlagsOn, MaxEmits)
NextXmm == XmmAndRr \/ XmmAndnRr \/ XmmOrRr \/ XmmXorRr \/ Finalize
SpecXmm == InitXmm /\ [][NextXmm]_vars

\* Sequences of calls drawn from a sample of the methods.
InitSeq == New(FlagsOn, MaxEmits)
NextSeq == PushR \/ PopR \/ Ret \/ MovRr \/ CmpRr \/ Setcc \/ Jmp \/ Trap \/ Finalize
SpecSeq == InitSeq /\ [][NextSeq]_vars

\* Every emission method of the assembler, on a fresh assembler (whose pool is empty, so
\* the address-taking methods get base+offset addresses here; SpecPool drives them with
\* constant-pool addresses).
Init == \E flags \in {FlagsOn, FlagsOff} : New(flags, MaxEmitsAll)
Next ==
  \/ Finalize \/ MovRm \/ MovIm \/ MovMr \/ XmmMovMr \/ XmmMovRm \/ Div
  \/ Rem \/ PushR \/ PopR \/ Ret \/ MovRr \/ MovIr \/ Cmov \/ XmmMovRr \/ XmmCmov
  \/ SubRr \/ SubIr \/ AndRr \/ AndIr \/ XmmAndRr \/ XmmAndnRr \/ GprToXmm \/ OrRr
  \/ OrIr \/ XmmOrRr \/ XorRr \/ XorIr \/ XmmXorRr \/ ShiftRr \/ ShiftIr \/ MulIr
  \/ MulRr \/ AddIr \/ AddRr \/ CmpIr \/ CmpRr \/ Ucomis \/ Popcnt \/ TestRr \/ Setcc
  \/ Setp \/ Setnp \/ Lzcnt \/ Tzcnt \/ Bsr \/ Neg \/ Bsf \/ XmmAddRr \/ XmmSubRr
  \/ XmmMulRr \/ XmmDivRr \/ XmmMinSeq \/ XmmMaxSeq \/ XmmRoundsRr \/ Sqrt
  \/ CallWithReg \/ CallWithIndex \/ CallWithLib \/ JmpIf \/ Jmp \/ JmpTable \/ Trap
  \/ Trapif
Spec == Init /\ [][Next]_vars

(***************************************************************************)
(* Helpers of the properties.                                              *)
(***************************************************************************)
\* The instructions a step appended to the buffer.
Appended == SubSeq(buffer', Len(buffer) + 1, Len(buffer'))
\* The buffer before the step is the beginning of the buffer after it.
BufferExtended ==
  /\ Len(buffer') >= Len(buffer)
  /\ SubSeq(buffer', 1, Len(buffer)) = buffer
\* Number of copies of a content in a sequence of contents.
Copies(seq, content) == Cardinality({i \in 1..Len(seq) : seq[i] = content})
\* Whether an emission call has resolved the address of this handle.
IsResolved(handle) == \E r \in resolved : r.handle = handle
\* Number of registrations of this pool handle with the MachBuffer.
Registrations(handle) ==
  Cardinality({i \in 1..Len(buffer_constants) :
                 constants[buffer_constants[i].constant].handle = handle})

(***************************************************************************)
(* Constant pool.                                                          *)
(***************************************************************************)
\* add_constant returns the same address for the same content and different addresses
\* for different contents.
HandlesDeduplicated ==
  call'.op = "add_constant" =>
    /\ call'.ret.kind = "Const"
    /\ \A p \in returned : (p.content = call'.constant) <=> (p.addr = call'.ret)
    /\ PoolGet(pool', call'.ret.handle) = call'.constant

\* C1 (as amended): for any sequence of add_constant calls, two calls with
\* byte-identical content return the same pool handle, calls with different content
\* return different handles, and after finalize the output contains exactly one copy of
\* each content whose address an emission call has resolved and no copy of a content
\* that no emission call referenced.
C1_DedupAndOneCopyOfReferenced ==
  [][/\ HandlesDeduplicated
     /\ status' = "finalized" =>
          \A p \in returned' :
            Copies(output'.consts, p.content) =
              IF IsResolved(p.addr.handle)' THEN 1 ELSE 0]_vars

\* C1 as stated: after finalize the output holds exactly one copy of every content
\* add_constant was given.
C1_OneCopyOfEveryContent ==
  [][/\ HandlesDeduplicated
     /\ status' = "finalized" =>
          \A p \in returned' : Copies(output'.consts, p.content) = 1]_vars

\* Finalized with two pooled contents, one referenced by two instructions and present
\* once in the output, the other never referenced.
C1_Witness ==
  /\ status = "finalized"
  /\ Cardinality(returned) = 2
  /\ Len(output.consts) = 1
  /\ Len(output.insts) = 2
  /\ \E p \in returned : IsResolved(p.addr.handle) /\ Copies(output.consts, p.content) = 1
  /\ \E p \in returned : ~IsResolved(p.addr.handle)

\* C2: resolving the same pool handle one or more times registers its data with the
\* instruction buffer exactly once, and every resolution of a handle yields the same
\* ConstantOffset operand (handles never resolved are not registered).
C2_RegisteredOnceSameOperand ==
  /\ \A h \in 1..Len(pool) : Registrations(h) = IF IsResolved(h) THEN 1 ELSE 0
  /\ \A r \in resolved :
       /\ r.amode.kind = "ConstantOffset"
       /\ constants[r.amode.constant] = [handle |-> r.handle, data |-> PoolGet(pool, r.handle)]
  /\ \A r1, r2 \in resolved : r1.handle = r2.handle => r1.amode = r2.amode
  /\ \A r1, r2 \in resolved : r1.handle # r2.handle => r1.amode # r2.amode

\* Two loads in the buffer reference the same constant, which is registered once.
C2_Witness ==
  /\ Len(buffer) = 2
  /\ buffer[1].inst = "Mov64MR" /\ buffer[2].inst = "XmmUnaryRmRUnaligned"
  /\ buffer[1].src.kind = "ConstantOffset"
  /\ buffer[2].src.mem = buffer[1].src
  /\ Len(buffer_constants) = 1

(***************************************************************************)
(* Division and remainder.                                                 *)
(***************************************************************************)
\* The operands the properties expect, spelled out.
ExpSize(size) == [kind |-> "OperandSize", v |-> IF size = "S32" THEN "Size32" ELSE "Size64"]
ExpGpr(reg) == [kind |-> "Gpr", reg |-> reg]
ExpWritableGpr(reg) == [kind |-> "WritableGpr", reg |-> reg]
ExpSignExtend(c) ==
  [inst |-> "SignExtendData", size |-> ExpSize(c.size), src |-> ExpGpr(c.dst[1]),
   dst |-> ExpWritableGpr(c.dst[2])]
ExpDivide(c, sign, tag) ==
  [inst |-> "Div", sign |-> sign, size |-> ExpSize(c.size), trap |-> tag,
   divisor |-> [kind |-> "GprMem", reg |-> c.divisor],
   dividend_lo |-> ExpGpr(c.dst[1]), dividend_hi |-> ExpGpr(c.dst[2]),
   dst_quotient |-> ExpWritableGpr(c.dst[1]), dst_remainder |-> ExpWritableGpr(c.dst[2])]
ExpXorSelf(c) ==
  [inst |-> "AluRmiR", size |-> ExpSize(c.size), op |-> "Xor", src1 |-> ExpGpr(c.dst[2]),
   src2 |-> [kind |-> "GprMemImm", reg |-> c.dst[2]], dst |-> ExpWritableGpr(c.dst[2])]
\* The call is a div or rem of this kind.
IsDivision(c, ops, kind) == c.op \in ops /\ c.kind = kind
\* Its registers are general-purpose and its size is 32 or 64 bits.
GprOperands(c) ==
  /\ c.divisor.class = "Int" /\ c.dst[1].class = "Int" /\ c.dst[2].class = "Int"
  /\ c.size \in {"S32", "S64"}
\* The instruction carries the integer-overflow trap code.
TaggedOverflow(i) ==
  \/ "trap" \in DOMAIN i /\ i.trap = "IntegerOverflow"
  \/ "trap_code" \in DOMAIN i /\ i.trap_code = "IntegerOverflow"

\* C3: every div call with kind Signed, general-purpose registers and size S32 or S64
\* appends exactly four instructions in this order: compare of the divisor against
\* immediate 0, conditional trap on Z with code IntegerDivisionByZero, sign-extension of
\* dst.0 into dst.1, and the divide tagged IntegerOverflow.
C3_SignedDivSequence ==
  [][(IsDivision(call', {"div"}, "Signed") /\ GprOperands(call')) =>
       /\ status' = "live"
       /\ BufferExtended
       /\ Appended =
            << [inst |-> "CmpRmiR", size |-> ExpSize(call'.size),
                src |-> [kind |-> "GprMemImm", imm |-> 0], dst |-> ExpGpr(call'.divisor),
                opcode |-> "Cmp"],
               [inst |-> "TrapIf", cc |-> "Z", trap_code |-> "IntegerDivisionByZero"],
               ExpSignExtend(call'),
               ExpDivide(call', "Signed", "IntegerOverflow") >>]_vars

\* A signed div of rdx-divisor by (rax, rdx) has returned after an earlier call.
C3_Witness ==
  /\ IsDivision(call, {"div"}, "Signed") /\ GprOperands(call)
  /\ call.divisor = RDX /\ call.dst = <<RAX, RDX>>
  /\ status = "live"
  /\ Len(buffer) > 4
  /\ buffer[Len(buffer)].inst = "Div"

\* C4: every rem call with kind Signed appends no plain divide instruction and no
\* instruction tagged IntegerOverflow, and when it returns it has appended exactly the
\* sign-extension of dst.0 into dst.1 followed by the checked-signed-remainder
\* pseudo-operation (it returns for general-purpose registers and sizes S32/S64); a
\* returning div with kind Signed appends a signed divide tagged IntegerOverflow.
C4_SignedRemDoesNotTrapOnOverflow ==
  [][/\ IsDivision(call', {"rem"}, "Signed") =>
          /\ BufferExtended
          /\ \A i \in 1..Len(Appended) :
               Appended[i].inst # "Div" /\ ~TaggedOverflow(Appended[i])
          /\ GprOperands(call') => status' = "live"
          /\ status' = "live" =>
               Appended =
                 << ExpSignExtend(call'),
                    [inst |-> "CheckedSRemSeq", size |-> ExpSize(call'.size),
                     divisor |-> ExpGpr(call'.divisor),
                     dividend_lo |-> ExpGpr(call'.dst[1]),
                     dividend_hi |-> ExpGpr(call'.dst[2]),
                     dst_quotient |-> ExpWritableGpr(call'.dst[1]),
                     dst_remainder |-> ExpWritableGpr(call'.dst[2])] >>
     /\ (IsDivision(call', {"div"}, "Signed") /\ status' = "live") =>
          /\ Len(Appended) > 0
          /\ Appended[Len(Appended)] = ExpDivide(call', "Signed", "IntegerOverflow")]_vars

\* A signed rem has returned after a signed div: the buffer holds the divide tagged
\* IntegerOverflow and then the checked remainder sequence.
C4_Witness ==
  /\ IsDivision(call, {"rem"}, "Signed") /\ status = "live"
  /\ Len(buffer) = 6
  /\ buffer[4].inst = "Div" /\ buffer[4].trap = "IntegerOverflow"
  /\ buffer[6].inst = "CheckedSRemSeq"

\* C5: every div and rem call with kind Unsigned appends, immediately before its divide
\* instruction, an xor of dst.1 with itself writing dst.1, never appends an
\* immediate load, and its divide is unsigned and tagged IntegerDivisionByZero, never
\* IntegerOverflow (with general-purpose registers and size S32/S64 the call returns
\* having appended exactly these two instructions).
C5_UnsignedZeroesHighByXor ==
  [][IsDivision(call', {"div", "rem"}, "Unsigned") =>
       /\ BufferExtended
       /\ \A i \in 1..Len(Appended) :
            /\ Appended[i].inst # "Imm"
            /\ ~TaggedOverflow(Appended[i])
            /\ Appended[i].inst = "Div" =>
                 /\ i > 1
                 /\ Appended[i - 1] = ExpXorSelf(call')
                 /\ Appended[i] = ExpDivide(call', "Unsigned", "IntegerDivisionByZero")
       /\ GprOperands(call') => (status' = "live" /\ Len(Appended) = 2)
       /\ status' = "live" => Appended[Len(Appended)].inst = "Div"]_vars

\* An unsigned rem has returned after an unsigned div.
C5_Witness ==
  /\ IsDivision(call, {"rem"}, "Unsigned") /\ status = "live"
  /\ Len(buffer) = 4
  /\ buffer[1].inst = "AluRmiR" /\ buffer[2].inst = "Div" /\ buffer[2].sign = "Unsigned"
  /\ buffer[3].inst = "AluRmiR" /\ buffer[4].inst = "Div"

(***************************************************************************)
(* Set-on-condition, capability flags, condition codes.                    *)
(***************************************************************************)
\* The call is a setcc, setp or setnp on a general-purpose destination.
IsSet(c) == c.op \in {"setcc", "setp", "setnp"} /\ c.dst.class = "Int"
\* The condition the call sets on.
SetCondition(c) ==
  CASE c.op = "setcc" -> CCFrom(c.kind)
    [] c.op = "setp" -> "P"
    [] c.op = "setnp" -> "NP"

\* C6: each setcc, setp and setnp call on a general-purpose destination returns having
\* appended exactly two instructions: a 32-bit immediate load of 0 into the destination,
\* then the set-on-condition on the same register; no instruction before the set writes
\* the flags; and executed from any register content and any flags, the two leave every
\* byte of the destination other than the lowest zero, the lowest byte equal to the
\* condition under the incoming flags, and the flags as they were.
C6_SetZeroesByImmediateThenSets ==
  [][IsSet(call') =>
       /\ status' = "live"
       /\ BufferExtended
       /\ Appended =
            << [inst |-> "Imm", dst_size |-> ExpSize("S32"), simm64 |-> 0,
                dst |-> ExpWritableGpr(call'.dst)],
               [inst |-> "Setcc", cc |-> SetCondition(call'),
                dst |-> ExpWritableGpr(call'.dst)] >>
       /\ \A i \in 1..(Len(Appended) - 1) : Appended[i].inst \notin FlagWriters
       /\ \A v \in RegValues, f \in StatusFlags :
            LET t == Run([value |-> v, flags |-> f], Appended)
            IN /\ \A i \in 2..8 : t.value[i] = 0
               /\ t.value[1] = IF CondHolds(SetCondition(call'), f) THEN 1 ELSE 0
               /\ t.flags = f]_vars

\* A setcc on rax has returned right after the caller's compare.
C6_Witness ==
  /\ IsSet(call) /\ call.op = "setcc" /\ call.kind = "Eq" /\ status = "live"
  /\ Len(buffer) = 3
  /\ buffer[1].inst = "CmpRmiR" /\ buffer[2].inst = "Imm" /\ buffer[3].inst = "Setcc"

\* The call is a popcnt, lzcnt or tzcnt.
IsBitCount(c) == c.op \in {"popcnt", "lzcnt", "tzcnt"}
\* The call has the capability flags its operation requires.
HasRequiredFlags(c) ==
  CASE c.op = "popcnt" -> isa_flags.has_popcnt /\ isa_flags.has_sse42
    [] c.op = "lzcnt" -> isa_flags.has_lzcnt
    [] c.op = "tzcnt" -> isa_flags.has_bmi1
\* The unary instruction the call stands for (popcnt counts in place).
ExpUnary(c) ==
  [inst |-> "UnaryRmR", size |-> ExpSize(c.size),
   op |-> CASE c.op = "popcnt" -> "Popcnt" [] c.op = "lzcnt" -> "Lzcnt" [] c.op = "tzcnt" -> "Tzcnt",
   src |-> [kind |-> "GprMem", reg |-> c.src],
   dst |-> ExpWritableGpr(IF c.op = "popcnt" THEN c.src ELSE c.dst)]
\* Its registers are general-purpose and its size is 32 or 64 bits.
BitCountOperands(c) ==
  /\ c.src.class = "Int" /\ c.size \in {"S32", "S64"}
  /\ c.op # "popcnt" => c.dst.class = "Int"

\* C7: under every flag snapshot (which no call changes), a popcnt call without both
\* has_popcnt and has_sse42, an lzcnt call without has_lzcnt and a tzcnt call without
\* has_bmi1 fails fast and leaves the buffer as it was, whatever its operands; with the
\* required flags set, a call with general-purpose registers and size S32 or S64 returns,
\* and a call that returns has appended exactly one unary instruction, of the matching
\* opcode.
C7_BitCountsNeedTheirFlags ==
  [][/\ isa_flags' = isa_flags
     /\ IsBitCount(call') =>
          /\ BufferExtended
          /\ ~HasRequiredFlags(call') => (status' = "panicked" /\ buffer' = buffer)
          /\ (HasRequiredFlags(call') /\ BitCountOperands(call')) => status' = "live"
          /\ status' = "live" => Appended = <<ExpUnary(call')>>]_vars

\* With popcnt and sse4.2 but not bmi1, a popcnt has returned and then a tzcnt failed.
C7_Witness ==
  /\ call.op = "tzcnt" /\ status = "panicked"
  /\ isa_flags.has_popcnt /\ isa_flags.has_sse42 /\ ~isa_flags.has_bmi1
  /\ Len(buffer) = 1 /\ buffer[1].inst = "UnaryRmR" /\ buffer[1].op = "Popcnt"

(***************************************************************************)
(* Order of the buffer.                                                    *)
(***************************************************************************)
\* The instructions a returning call of the sampled methods stands for.
LoweringOf(c) ==
  CASE c.op = "push_r" -> <<[inst |-> "Push64", src |-> [kind |-> "GprMemImm", reg |-> c.reg]]>>
    [] c.op = "pop_r" -> <<[inst |-> "Pop64", dst |-> ExpWritableGpr(c.dst)]>>
    [] c.op = "ret" -> <<[inst |-> "Ret", stack_bytes_to_pop |-> 0]>>
    [] c.op = "mov_rr" ->
         <<[inst |-> "MovRR", src |-> ExpGpr(c.src), dst |-> ExpWritableGpr(c.dst),
            size |-> ExpSize(c.size)]>>
    [] c.op = "cmp_rr" ->
         <<[inst |-> "CmpRmiR", size |-> ExpSize(c.size), opcode |-> "Cmp",
            src |-> [kind |-> "GprMemImm", reg |-> c.src], dst |-> ExpGpr(c.dst)]>>
    [] c.op = "setcc" ->
         <<[inst |-> "Imm", dst_size |-> ExpSize("S32"), simm64 |-> 0,
            dst |-> ExpWritableGpr(c.dst)],
           [inst |-> "Setcc", cc |-> CCFrom(c.kind), dst |-> ExpWritableGpr(c.dst)]>>
    [] c.op = "jmp" -> <<[inst |-> "JmpKnown", dst |-> c.target]>>
    [] c.op = "trap" -> <<[inst |-> "Ud2", trap_code |-> c.code]>>

RECURSIVE Concatenation(_)
\* The instruction sequences of the calls, one after the other in call order; a call
\* of the sampled methods that failed fast did so before it emitted anything.
Concatenation(cs) ==
  IF cs = <<>> THEN <<>>
  ELSE Concatenation(SubSeq(cs, 1, Len(cs) - 1))
         \o (IF cs[Len(cs)].ok THEN LoweringOf(cs[Len(cs)].call) ELSE <<>>)

\* C8: after any sequence of emission calls the buffer is the concatenation, in call
\* order, of the instruction sequences of the calls made so far; every step keeps the
\* buffer it found as the beginning of the buffer it leaves; and finalize hands over the
\* buffer as it stands.
C8_BufferIsConcatenationInCallOrder ==
  /\ [](buffer = Concatenation(calls))
  /\ [][/\ BufferExtended
        /\ call'.op = "finalize" => (buffer' = buffer /\ output'.insts = buffer)]_vars

\* Two calls have returned, three instructions in the buffer, and it was finalized.
C8_Witness ==
  /\ status = "finalized"
  /\ Len(calls) = 2 /\ calls[1].call.op = "cmp_rr" /\ calls[2].call.op = "setcc"
  /\ Len(output.insts) = 3
  /\ output.insts[1].inst = "CmpRmiR" /\ output.insts[3].inst = "Setcc"

(***************************************************************************)
(* Comparison kinds.                                                       *)
(***************************************************************************)
\* What a comparison kind means for the operands of the compare.
Holds(kind, a, b) ==
  CASE kind = "Eq" -> a = b
    [] kind = "Ne" -> a # b
    [] kind = "LtS" -> Signed(a) < Signed(b)
    [] kind = "LtU" -> a < b
    [] kind = "GtS" -> Signed(a) > Signed(b)
    [] kind = "GtU" -> a > b
    [] kind = "LeS" -> Signed(a) <= Signed(b)
    [] kind = "LeU" -> a <= b
    [] kind = "GeS" -> Signed(a) >= Signed(b)
    [] kind = "GeU" -> a >= b

\* C9: a setcc call of any of the ten comparison kinds on a general-purpose destination
\* returns (the mapping is total), the condition code it emits is the one the table
\* gives for its kind, no other kind maps to that code (the mapping is injective), and
\* for all operands a and b the code holds under the flags of "cmp a, b" exactly when
\* the kind's relation holds between a and b.
C9_KindsMapToTheirConditions ==
  (call.op = "setcc" /\ call.dst.class = "Int") =>
    /\ status = "live"
    /\ buffer[Len(buffer)].inst = "Setcc"
    /\ LET cc == buffer[Len(buffer)].cc
       IN /\ <<call.kind, cc>> \in
               {<<"Eq", "Z">>, <<"Ne", "NZ">>, <<"LtS", "L">>, <<"LeS", "LE">>,
                <<"GtS", "NLE">>, <<"GeS", "NL">>, <<"LtU", "B">>, <<"LeU", "BE">>,
                <<"GtU", "NBE">>, <<"GeU", "NB">>}
          /\ \A k \in IntCmpKinds \ {call.kind} : CCFrom(k) # cc
          /\ \A a \in Words, b \in Words :
               CondHolds(cc, CmpFlags(a, b)) <=> Holds(call.kind, a, b)

\* A setcc of the signed less-than has returned after a compare.
C9_Witness ==
  /\ call.op = "setcc" /\ call.kind = "LtS" /\ call.dst = RAX /\ status = "live"
  /\ Len(buffer) = 3 /\ buffer[1].inst = "CmpRmiR" /\ buffer[3].cc = "L"

(***************************************************************************)
(* Register classes.                                                       *)
(***************************************************************************)
\* The instructions whose register operands are float registers.
XmmInsts == {"XmmUnaryRmRUnaligned", "XmmCmove", "XmmRmR", "XmmRmRUnaligned", "XmmCmpRmR",
             "XmmMinMaxSeq", "XmmUnaryRmRImm", "XmmUnaryRmR", "XmmMovRM"}
\* The class the operand position f of instruction i requires.
RequiredClass(i, f) ==
  IF i.inst \in XmmInsts \/ (i.inst = "GprToXmm" /\ f = "dst") THEN "Float" ELSE "Int"
\* The operand positions of an instruction that hold a register.
RegisterPositions(i) == {f \in (DOMAIN i) \cap OperandFields : "reg" \in DOMAIN i[f]}

\* C10: no instruction in the buffer holds a register of the wrong class for its
\* operand position (a call that passes one fails fast instead), the index and scratch
\* registers of jmp_table and the callee register of call_with_reg included.
C10_NoWrongClassRegisterInBuffer ==
  \A n \in 1..Len(buffer) :
    \A f \in RegisterPositions(buffer[n]) :
      buffer[n][f].reg.class = RequiredClass(buffer[n], f)

(***************************************************************************)
(* Operand sizes and loads.                                                *)
(***************************************************************************)
\* The methods defined over general-purpose registers only.
GprOnlyOps == {"mov_rr", "mov_rm", "mov_im", "mov_ir", "mov_mr", "cmov",
               "sub_rr", "sub_ir", "and_rr", "and_ir", "or_rr", "or_ir", "xor_rr", "xor_ir",
               "mul_rr", "mul_ir", "add_rr", "add_ir", "shift_rr", "shift_ir",
               "div", "rem", "cmp_ir", "cmp_rr", "test_rr", "popcnt", "lzcnt", "tzcnt",
               "bsr", "bsf", "neg"}

\* C11: every call of a method defined over general-purpose registers only with size
\* S128 fails fast and leaves the buffer as it was (so it emits no instruction of a
\* narrower width for the 128-bit request); the memory-to-register load mov_mr included.
C11_GprOpsRejectS128 ==
  [][(call'.op \in GprOnlyOps /\ call'.size = "S128") =>
       (status' = "panicked" /\ buffer' = buffer)]_vars

\* The address operand a resolved address stands for: base+displacement for a
\* base+offset address, a constant reference for a constant-pool address.
IsOperandOf(amode, addr) ==
  IF addr.kind = "Offset"
  THEN amode = [kind |-> "Real", simm32 |-> addr.offset, base |-> [kind |-> "Reg", reg |-> addr.base]]
  ELSE amode.kind = "ConstantOffset" /\ [handle |-> addr.handle, amode |-> amode] \in resolved'

\* C12: a mov_mr call appends at most one instruction and never a sign-extending load,
\* for either address form; with a general-purpose dst it returns, and it has appended
\* exactly one load from the operand of its address into dst: the full 64-bit load for
\* size S64, and the zero-extending load of 32 bits into the 64-bit register for S32.
C12_LoadZeroExtends ==
  [][call'.op = "mov_mr" =>
       /\ BufferExtended
       /\ Len(Appended) <= 1
       /\ \A i \in 1..Len(Appended) : Appended[i].inst # "MovsxRmR"
       /\ (call'.dst.class = "Int" /\ call'.size \in {"S32", "S64"}) =>
            /\ status' = "live"
            /\ Len(Appended) = 1
            /\ Appended[1].dst = ExpWritableGpr(call'.dst)
            /\ IF call'.size = "S64"
               THEN /\ Appended[1].inst = "Mov64MR"
                    /\ IsOperandOf(Appended[1].src, call'.addr)
               ELSE /\ Appended[1].inst = "MovzxRmR"
                    /\ Appended[1].ext_mode = "LQ"
                    /\ Appended[1].src.kind = "GprMem"
                    /\ IsOperandOf(Appended[1].src.mem, call'.addr)]_vars

\* A 32-bit load from a constant-pool address has returned after a 64-bit load from a
\* base+offset address.
C12_Witness ==
  /\ call.op = "mov_mr" /\ call.size = "S32" /\ call.addr.kind = "Const" /\ status = "live"
  /\ Len(buffer) = 2
  /\ buffer[1].inst = "Mov64MR" /\ buffer[1].src.kind = "Real"
  /\ buffer[2].inst = "MovzxRmR" /\ buffer[2].src.mem.kind = "ConstantOffset"

(***************************************************************************)
(* Float bitwise operations.                                               *)
(***************************************************************************)
\* The call is one of the four float bitwise operations.
IsXmmBitwise(c) == c.op \in {"xmm_and_rr", "xmm_andn_rr", "xmm_or_rr", "xmm_xor_rr"}
\* The opcode of the operation at the size.
XmmBitwiseOpcode(c) ==
  CASE c.op = "xmm_and_rr" -> IF c.size = "S32" THEN "Andps" ELSE "Andpd"
    [] c.op = "xmm_andn_rr" -> IF c.size = "S32" THEN "Andnps" ELSE "Andnpd"
    [] c.op = "xmm_or_rr" -> IF c.size = "S32" THEN "Orps" ELSE "Orpd"
    [] c.op = "xmm_xor_rr" -> IF c.size = "S32" THEN "Xorps" ELSE "Xorpd"

\* C13: an xmm_and_rr, xmm_andn_rr, xmm_or_rr or xmm_xor_rr call with size S128 fails
\* fast and leaves the buffer as it was; with size S32 or S64 and float registers it
\* returns having appended exactly one instruction, with the single-precision opcode of
\* the operation for S32 and the double-precision opcode for S64.
C13_XmmBitwiseScalarOnly ==
  [][IsXmmBitwise(call') =>
       /\ BufferExtended
       /\ call'.size = "S128" => (status' = "panicked" /\ buffer' = buffer)
       /\ (call'.size # "S128" /\ call'.src.class = "Float" /\ call'.dst.class = "Float") =>
            status' = "live"
       /\ status' = "live" =>
            Appended = << [inst |-> "XmmRmR", op |-> XmmBitwiseOpcode(call'),
                           src1 |-> [kind |-> "Xmm", reg |-> call'.dst],
                           src2 |-> [kind |-> "XmmMemAligned", reg |-> call'.src],
                           dst |-> [kind |-> "WritableXmm", reg |-> call'.dst]] >>
       /\ status' = "panicked" => buffer' = buffer]_vars

\* A single-precision and has returned, then a 128-bit xor failed.
C13_Witness ==
  /\ call.op = "xmm_xor_rr" /\ call.size = "S128" /\ call.src = XMM0 /\ call.dst = XMM0
  /\ status = "panicked"
  /\ Len(buffer) = 1 /\ buffer[1].inst = "XmmRmR" /\ buffer[1].op = "Andps"

(***************************************************************************)
(* Integer arithmetic and logic.                                           *)
(***************************************************************************)
\* The ALU opcode of each two-operand integer method.
AluOpcodeOf(op) ==
  CASE op \in {"add_rr", "add_ir"} -> "Add"
    [] op \in {"sub_rr", "sub_ir"} -> "Sub"
    [] op \in {"and_rr", "and_ir"} -> "And"
    [] op \in {"or_rr", "or_ir"} -> "Or"
    [] op \in {"xor_rr", "xor_ir"} -> "Xor"
    [] op \in {"mul_rr", "mul_ir"} -> "Mul"
AluRegisterForms == {"add_rr", "sub_rr", "and_rr", "or_rr", "xor_rr", "mul_rr"}
AluImmediateForms == {"add_ir", "sub_ir", "and_ir", "or_ir", "xor_ir", "mul_ir"}
\* The registers the call passes are general-purpose and its size is 32 or 64 bits.
AluOperands(c) ==
  /\ c.dst.class = "Int" /\ c.size \in {"S32", "S64"}
  /\ c.op \in AluRegisterForms => c.src.class = "Int"

\* C14: every add, sub, and, or, xor and mul call, register or immediate form, appends
\* at most one instruction; with general-purpose registers and size S32 or S64 it
\* returns; and a call that returns has appended exactly one ALU instruction of the
\* method's opcode whose first source and whose destination are the caller's dst and
\* whose second source is the caller's src register or immediate, so the only register
\* it writes is dst.
C14_AluIsDestructiveTwoOperand ==
  [][call'.op \in AluRegisterForms \cup AluImmediateForms =>
       /\ BufferExtended
       /\ AluOperands(call') => status' = "live"
       /\ status' = "panicked" => buffer' = buffer
       /\ status' = "live" =>
            Appended =
              << [inst |-> "AluRmiR", size |-> ExpSize(call'.size),
                  op |-> AluOpcodeOf(call'.op),
                  src1 |-> ExpGpr(call'.dst),
                  src2 |-> IF call'.op \in AluRegisterForms
                           THEN [kind |-> "GprMemImm", reg |-> call'.src]
                           ELSE [kind |-> "GprMemImm", imm |-> call'.imm],
                  dst |-> ExpWritableGpr(call'.dst)] >>]_vars

\* A sub of rdx from rax has returned after an add of an immediate to rax.
C14_Witness ==
  /\ call.op = "sub_rr" /\ call.src = RDX /\ call.dst = RAX /\ status = "live"
  /\ Len(buffer) = 2 /\ calls[1].call.op = "add_ir"
  /\ buffer[1].inst = "AluRmiR" /\ buffer[1].op = "Add" /\ buffer[1].src2.imm = 7
  /\ buffer[2].op = "Sub" /\ buffer[2].src2.reg = RDX /\ buffer[2].dst.reg = RAX

(***************************************************************************)
(* Unsigned remainder against unsigned division.                           *)
(***************************************************************************)
\* A second assembler, fresh.
FreshMachine == [buffer |-> <<>>, buffer_constants |-> <<>>, constants |-> <<>>,
                 resolved |-> {}, ok |-> TRUE]

RECURSIVE Mirrored(_)
\* The second assembler after the same calls with the same arguments, except that it
\* gets the remainder where the first got an unsigned division and the division where
\* the first got an unsigned remainder.
Mirrored(cs) ==
  IF cs = <<>> THEN FreshMachine
  ELSE LET m == Mirrored(SubSeq(cs, 1, Len(cs) - 1))
           c == cs[Len(cs)].call
       IN IF (c.op = "div") = (c.kind = "Signed")
          THEN div(m, c.divisor, c.dst, c.kind, c.size)
          ELSE rem(m, c.divisor, c.dst, c.kind, c.size)

\* C15: for every divisor, dividend pair and size, two assemblers driven side by side,
\* one receiving rem where the other receives div whenever the kind is Unsigned, have
\* identical buffers and fail on the same call; and a returning unsigned div or rem has
\* appended the xor of dst.1 with itself and then the unsigned divide tagged
\* IntegerDivisionByZero, with quotient in dst.0 and remainder in dst.1.
C15_UnsignedRemIsUnsignedDiv ==
  /\ Mirrored(calls).buffer = buffer
  /\ Mirrored(calls).ok = (status # "panicked")
  /\ (IsDivision(call, {"div", "rem"}, "Unsigned") /\ status = "live") =>
       /\ Len(buffer) >= 2
       /\ SubSeq(buffer, Len(buffer) - 1, Len(buffer)) =
            <<ExpXorSelf(call), ExpDivide(call, "Unsigned", "IntegerDivisionByZero")>>

\* An unsigned div and then an unsigned rem on the same arguments have returned: the
\* two halves of the buffer are the same.
C15_Witness ==
  /\ Len(calls) = 2 /\ status = "live"
  /\ calls[1].call.op = "div" /\ calls[2].call.op = "rem"
  /\ calls[1].call.kind = "Unsigned" /\ calls[2].call.kind = "Unsigned"
  /\ calls[1].call.divisor = calls[2].call.divisor /\ calls[1].call.dst = calls[2].call.dst
  /\ calls[1].call.size = calls[2].call.size
  /\ Len(buffer) = 4 /\ SubSeq(buffer, 1, 2) = SubSeq(buffer, 3, 4)

(***************************************************************************)
(* The pool and the registered constants over time.                        *)
(***************************************************************************)
\* The call is an emission call that resolves a constant-pool address.
ResolvesConstant(c) == "addr" \in DOMAIN c /\ c.addr.kind = "Const"

\* C16: the pool is append-only: no step shortens it or changes an entry it had, only
\* add_constant changes it (every emission call and the address resolution inside it
\* leave it as it was), and every address add_constant has returned still maps to the
\* bytes it was returned for.
C16_PoolIsAppendOnly ==
  /\ [](\A p \in returned : PoolGet(pool, p.addr.handle) = p.content)
  /\ [][/\ Len(pool') >= Len(pool)
        /\ \A h \in 1..Len(pool) : PoolGet(pool', h) = PoolGet(pool, h)
        /\ pool' # pool => call'.op = "add_constant"]_vars

\* Two contents were added, the first was loaded and the second added again: both
\* addresses still give their bytes.
C16_Witness ==
  /\ Len(pool) = 2 /\ Len(calls) = 1 /\ calls[1].ok /\ ResolvesConstant(calls[1].call)
  /\ call.op = "add_constant" /\ call.ret.handle = 2
  /\ Cardinality(returned) = 2

\* C19: registration with the buffer is lazy: a step changes the registered constants
\* only if it is an emission call given a constant-pool address (add_constant, finalize,
\* a call that takes no address and a call given a base+offset address leave them
\* unchanged), a step never drops a registration, and every registered constant is a
\* pool entry, with the pool's bytes, whose address some emission call has resolved.
C19_RegistrationIsLazy ==
  /\ [](\A i \in 1..Len(buffer_constants) :
          LET h == constants[buffer_constants[i].constant].handle
          IN /\ h \in 1..Len(pool)
             /\ buffer_constants[i].data = PoolGet(pool, h)
             /\ IsResolved(h))
  /\ [][/\ buffer_constants' # buffer_constants => ResolvesConstant(call')
        /\ Len(buffer_constants') >= Len(buffer_constants)
        /\ SubSeq(buffer_constants', 1, Len(buffer_constants)) = buffer_constants]_vars

\* A constant was added and nothing registered by that, by a ret or by a load from a
\* base+offset address; a load from the constant's address then registered it.
C19_Witness ==
  /\ Len(pool) = 1 /\ Len(calls) = 2
  /\ calls[1].call.op \in {"ret", "mov_mr"} /\ calls[1].ok
  /\ ResolvesConstant(calls[2].call) /\ calls[2].ok
  /\ Len(buffer_constants) = 1

(***************************************************************************)
(* Failing calls and stores.                                               *)
(***************************************************************************)
\* C17: a call that fails fast has validated before it changed anything: it leaves the
\* buffer and the constants registered with it exactly as they were; div, rem, setcc and
\* the address-taking moves included.
C17_FailedCallChangesNothing ==
  [][status' = "panicked" =>
       (buffer' = buffer /\ buffer_constants' = buffer_constants)]_vars

\* The instructions that write to a memory destination.
StoreInsts == {"MovRM", "MovImmM", "XmmMovRM"}

\* C18: a mov_rm, mov_im or xmm_mov_rm call whose destination is a constant-pool address
\* fails fast, and the buffer never holds a store whose destination is a constant-pool
\* location.
C18_NoStoreToConstantPool ==
  /\ (call.op \in {"mov_rm", "mov_im", "xmm_mov_rm"} /\ call.addr.kind = "Const") =>
       status = "panicked"
  /\ \A n \in 1..Len(buffer) :
       buffer[n].inst \in StoreInsts => buffer[n].dst.kind # "ConstantOffset"

====
